---- MODULE Spec2Model ----
(***************************************************************************)
(* Model of loki-pattern-log-exporter (main.go): the MessageCache with its *)
(* sync.RWMutex, the startup sequence of main(), the poll loop with        *)
(* queryLoki and sendSlackNotification, and the cleanup goroutine.         *)
(*                                                                         *)
(* Time is an integer number of minutes.  The clock advances in steps of   *)
(* TickStep minutes and may advance between any two steps of any           *)
(* goroutine.  Positions of a goroutine are named after the line of        *)
(* main.go it is about to execute (Con46 = line 46 inside Contains).       *)
(***************************************************************************)
EXTENDS Integers, Sequences, FiniteSets, TLC

VARIABLES
    now,        \* wall clock, minutes
    cfg,        \* the Config built by loadConfig
    pattern,    \* the compiled pattern: the set of literals of its alternation
    interval,   \* the parsed poll interval, minutes
    tickers,    \* the two time.Ticker objects: "poll" and "sweep"
    pc,         \* position of every goroutine
    arg,        \* parameter `message` of the cache call a goroutine is in
    timestamp,  \* local `timestamp` of Contains
    result,     \* value returned by the last Contains of a goroutine
    messages,   \* MessageCache.messages: rendered message -> time of Add
    wOwner,     \* RWMutex: the goroutine that called Lock and has not yet called Unlock
    readers,    \* RWMutex: the goroutines holding the read lock
    matches,    \* local `matches` of the running cycle
    idx,        \* index of the range loop of sendSlackNotification
    lastAdd,    \* history: rendered message -> time of the last completed Add
    sendCount,  \* history: rendered message -> number of successful PostMessage calls
    failed,     \* history: messages whose latest PostMessage returned an error
    cycleSent,  \* history: messages sent successfully in the running cycle
    queried,    \* history: TRUE once client.Query has been called
    sweepRun,   \* history: Cleanup loops run in succession on an untouched map
                \* at the current instant, counted up to 2
    environ,    \* the config file and the environment variables of the process
    q           \* the query_range request in flight: its start and end

vars == <<now, cfg, pattern, interval, tickers, pc, arg, timestamp, result,
          messages, wOwner, readers, matches, idx, lastAdd, 
          sendCount, failed, cycleSent, queried, sweepRun, environ, q>>

progVars == <<cfg, pattern, interval, matches, idx>>
histVars == <<lastAdd, sendCount, failed, cycleSent, queried, sweepRun>>
ioVars == <<environ, q>>
lockVars == <<wOwner, readers>>
callVars == <<arg, timestamp, result>>

----------------------------------------------------------------------------
(* Bounds of the model *)

TickStep == 15
MaxTime == 90
MaxBatch == 2

(* Durations of the program, in minutes *)

Minute == 1
Hour == 60 * Minute
Window == 1 * Hour
SweepPeriod == 15 * Minute
Lookback == Minute

----------------------------------------------------------------------------
(* Goroutines *)

Poll == "poll"
Sweep == "sweep"
Clients == {"c1", "c2"}
Procs == {Poll, Sweep} \cup Clients

----------------------------------------------------------------------------
(* Log lines, rendering and matching *)

LineCritical == <<"critical", "failure", "X">>
LineException == <<"2024", "ERROR", "something,", "exception", "thrown">>
LineInfo == <<"2024", "INFO", "ok">>
Lines == {LineCritical, LineException, LineInfo}

Render(line) == <<"Found pattern in log:">> \o line

Rendered == {Render(l) : l \in Lines}

MatchString(p, line) == \E i \in 1..Len(line) : line[i] \in p

RECURSIVE Matches(_, _)
Matches(p, values) ==
    IF values = <<>> THEN <<>>
    ELSE LET rest == Matches(p, Tail(values))
         IN  IF MatchString(p, Head(values))
             THEN <<Render(Head(values))>> \o rest
             ELSE rest

SeqsUpTo(S, n) == UNION {[1..k -> S] : k \in 0..n}

QueryResults == SeqsUpTo(Lines, MaxBatch)

----------------------------------------------------------------------------
(* Configuration: loadConfig, regexp.Compile, time.ParseDuration *)

Fields == {"endpoint", "query", "pattern", "interval", "token", "channel"}

Defaults ==
    [endpoint |-> "http://localhost:3100",
     query    |-> "{job=your-job-name}",
     pattern  |-> "error|exception|critical",
     interval |-> "1m",
     token    |-> "",
     channel  |-> ""]

\* yaml.Unmarshal into the struct holding the defaults: a key of the file
\* replaces the field, a key the file lacks leaves it.
FromFile(c, file) == [f \in Fields |-> IF f \in DOMAIN file THEN file[f] ELSE c[f]]

\* lines 109-126 without the test `env != ""`
FromEnv_AlsoEmpty(c, env) == [f \in Fields |-> env[f]]

\* Lines 109-126: a non-empty environment variable replaces the field.
FromEnv(c, env) == [f \in Fields |-> IF env[f] # "" THEN env[f] ELSE c[f]]

\* in = [exists, readable, parses, file, env]; the result is the pair
\* (error, config) of loadConfig with err = "" for nil.
loadConfig(in) ==
    LET loaded == IF in.exists THEN FromFile(Defaults, in.file) ELSE Defaults
        config == FromEnv(loaded, in.env)
    IN  IF in.exists /\ ~in.readable
          THEN [err |-> "error reading config file", config |-> Defaults]
        ELSE IF in.exists /\ ~in.parses
          THEN [err |-> "error parsing config file", config |-> Defaults]
        ELSE IF config.token = ""
          THEN [err |-> "SLACK_TOKEN is required", config |-> config]
        ELSE IF config.channel = ""
          THEN [err |-> "SLACK_CHANNEL is required", config |-> config]
        ELSE [err |-> "", config |-> config]

\* regexp.Compile on the pattern sources of the model: an alternation of
\* literals compiles to the set of its literals, "(" is a syntax error.
Compile(src) ==
    CASE src = "error|exception|critical" ->
            [ok |-> TRUE, re |-> {"error", "exception", "critical"}]
      [] src = "critical" -> [ok |-> TRUE, re |-> {"critical"}]
      [] OTHER -> [ok |-> FALSE, re |-> {}]

\* time.ParseDuration on the interval strings of the model, in minutes.
ParseDuration(s) ==
    CASE s = "1m" -> [ok |-> TRUE, d |-> 1 * Minute]
      [] s = "30m" -> [ok |-> TRUE, d |-> 30 * Minute]
      [] OTHER -> [ok |-> FALSE, d |-> 0]

NoEnv == [f \in Fields |-> ""]
EnvCreds == [NoEnv EXCEPT !.token = "xoxb-env", !.channel = "#alerts"]
NoFile == [exists |-> FALSE, readable |-> TRUE, parses |-> TRUE, file |-> <<>>]
File(kv) == [exists |-> TRUE, readable |-> TRUE, parses |-> TRUE, file |-> kv]
With(f, env) == [exists |-> f.exists, readable |-> f.readable,
                 parses |-> f.parses, file |-> f.file, env |-> env]

FileCreds == ("token" :> "xoxb-file") @@ ("channel" :> "#file")

\* The startup environments the model draws from.
ConfigInputs ==
    { With(NoFile, EnvCreds),
      With(File(FileCreds @@ ("pattern" :> "(") @@ ("interval" :> "30m")),
           [NoEnv EXCEPT !.pattern = "critical", !.token = "xoxb-env",
                         !.channel = "#alerts"]),
      With(File("token" :> "xoxb-file"), NoEnv),
      With(File("channel" :> "#file"), NoEnv),
      With(NoFile, [NoEnv EXCEPT !.channel = "#alerts"]),
      With(NoFile, NoEnv),
      With(File(FileCreds @@ ("pattern" :> "(")), NoEnv),
      With(File(FileCreds @@ ("interval" :> "abc")), NoEnv),
      With([File(FileCreds) EXCEPT !.readable = FALSE], EnvCreds),
      With([File(FileCreds) EXCEPT !.parses = FALSE], EnvCreds) }

----------------------------------------------------------------------------
(* Clock and tickers *)

NoTicker == [on |-> FALSE, period |-> 0, next |-> 0, pending |-> FALSE]

\* time.NewTicker(d) at time t: the first tick is due at t + d.
NewTicker(d, t) == [on |-> TRUE, period |-> d, next |-> t + d, pending |-> FALSE]

\* The runtime delivers a tick when one is due; the channel holds one tick
\* and ticks that find it full are dropped.
Fire(tk, t) ==
    IF tk.on /\ tk.next <= t
    THEN [tk EXCEPT !.pending = TRUE,
                    !.next = tk.next + tk.period * (((t - tk.next) \div tk.period) + 1)]
    ELSE tk

\* The clock advances by one step.  Startup (lines 190-221 and the creation
\* of the cleanup ticker) completes within the first step of the clock, and
\* a process that has exited has no clock.
Starting == pc[Poll] \in {"L190", "L195", "L200", "L206", "L221"} \/ pc[Sweep] = "L210"

Tick ==
    /\ ~Starting
    /\ pc[Poll] # "exited"
    /\ now + TickStep <= MaxTime
    /\ now' = now + TickStep
    /\ tickers' = [k \in DOMAIN tickers |-> Fire(tickers[k], now')]
    /\ sweepRun' = 0
    /\ UNCHANGED <<ioVars, progVars, lastAdd, sendCount, failed, cycleSent, queried,
                   lockVars, callVars, pc, messages>>

----------------------------------------------------------------------------
(* MessageCache *)

NoMsg == <<>>

\* line 47 with the comparison turned round
Live_Inverted(ts, t) == t - ts > Window

\* line 47 with <= for <
Live_Inclusive(ts, t) == t - ts <= Window

\* line 47
Live(ts, t) == t - ts < Window

\* line 67 with the operands of Sub exchanged
Stale_Swapped(ts, t) == ts - t > Window

\* line 67 with the window taken twice
Stale_TwoWindows(ts, t) == t - ts > Window + Window

\* line 67
Stale(ts, t) == t - ts > Window

Put(m, k, v) == [x \in DOMAIN m \cup {k} |-> IF x = k THEN v ELSE m[x]]
\* line 53 left out
Delete_Nothing(m, k) == m

Delete(m, k) == [x \in DOMAIN m \ {k} |-> m[x]]

\* where a goroutine continues after the cache call returns
AfterContains(t) == IF t = Poll THEN "L165r" ELSE "idle"
AfterAdd(t) == IF t = Poll THEN "L180" ELSE "idle"
AfterCleanup(t) == IF t = Sweep THEN "L212" ELSE "idle"

\* sync.RWMutex: Lock waits until no goroutine holds the lock in either
\* mode, RLock waits until no goroutine holds it exclusively.
CanLock == wOwner = "none" /\ readers = {}
CanRLock == wOwner = "none"

Goto(t, p) == pc' = [pc EXCEPT ![t] = p]

Add_Lock(t) ==
    /\ pc[t] = "Add36"
    /\ CanLock
    /\ wOwner' = t
    /\ Goto(t, "Add38")
    /\ UNCHANGED <<ioVars, now, tickers, progVars, histVars, callVars, messages, readers>>

\* line 38 left out: Add returns without storing the message
Add_Store_Nothing(t) ==
    /\ pc[t] = "Add38"
    /\ lastAdd' = Put(lastAdd, arg[t], now)
    /\ Goto(t, "Add39")
    /\ UNCHANGED <<ioVars, now, tickers, progVars, lockVars, callVars, messages,
                   sendCount, failed, cycleSent, queried, sweepRun>>

Add_Store(t) ==
    /\ pc[t] = "Add38"
    /\ messages' = Put(messages, arg[t], now)
    /\ lastAdd' = Put(lastAdd, arg[t], now)
    /\ sweepRun' = 0
    /\ Goto(t, "Add39")
    /\ UNCHANGED <<ioVars, now, tickers, progVars, lockVars, callVars,
                   sendCount, failed, cycleSent, queried>>

Add_Unlock(t) ==
    /\ pc[t] = "Add39"
    /\ wOwner' = "none"
    /\ Goto(t, AfterAdd(t))
    /\ arg' = [arg EXCEPT ![t] = NoMsg]
    /\ UNCHANGED <<ioVars, now, tickers, progVars, histVars, messages, readers,
                   timestamp, result>>

Contains_RLock(t) ==
    /\ pc[t] = "Con43"
    /\ CanRLock
    /\ readers' = readers \cup {t}
    /\ Goto(t, "Con46")
    /\ UNCHANGED <<ioVars, now, tickers, progVars, histVars, callVars, messages, wOwner>>

\* lines 46-47: the lookup and the test of the age
Contains_Lookup(t) ==
    /\ pc[t] = "Con46"
    /\ IF arg[t] \in DOMAIN messages
       THEN /\ timestamp' = [timestamp EXCEPT ![t] = messages[arg[t]]]
            /\ IF Live(messages[arg[t]], now)
               THEN Goto(t, "Con48")
               ELSE Goto(t, "Con51")
       ELSE /\ Goto(t, "Con57")
            /\ UNCHANGED timestamp
    /\ UNCHANGED <<ioVars, now, tickers, progVars, histVars, lockVars, messages, arg, result>>

\* line 48 with the entry touched on a hit
Contains_ReturnTrue_Refresh(t) ==
    /\ pc[t] = "Con48"
    /\ messages' = Put(messages, arg[t], now)
    /\ readers' = readers \ {t}
    /\ result' = [result EXCEPT ![t] = TRUE]
    /\ timestamp' = [timestamp EXCEPT ![t] = 0]
    /\ arg' = [arg EXCEPT ![t] = IF t = Poll THEN arg[t] ELSE NoMsg]
    /\ Goto(t, AfterContains(t))
    /\ UNCHANGED <<ioVars, now, tickers, progVars, histVars, wOwner>>

\* line 48 and the deferred RUnlock
Contains_ReturnTrue(t) ==
    /\ pc[t] = "Con48"
    /\ readers' = readers \ {t}
    /\ result' = [result EXCEPT ![t] = TRUE]
    /\ timestamp' = [timestamp EXCEPT ![t] = 0]
    /\ arg' = [arg EXCEPT ![t] = IF t = Poll THEN arg[t] ELSE NoMsg]
    /\ Goto(t, AfterContains(t))
    /\ UNCHANGED <<ioVars, now, tickers, progVars, histVars, messages, wOwner>>

Contains_RUnlock(t) ==
    /\ pc[t] = "Con51"
    /\ readers' = readers \ {t}
    /\ Goto(t, "Con52")
    /\ UNCHANGED <<ioVars, now, tickers, progVars, histVars, callVars, messages, wOwner>>

\* line 52 left out: the delete of line 53 runs with no lock held
Contains_Lock_Skipped(t) ==
    /\ pc[t] = "Con52"
    /\ Goto(t, "Con53")
    /\ UNCHANGED <<ioVars, now, tickers, progVars, histVars, callVars, messages,
                   lockVars>>

Contains_Lock(t) ==
    /\ pc[t] = "Con52"
    /\ CanLock
    /\ wOwner' = t
    /\ Goto(t, "Con53")
    /\ UNCHANGED <<ioVars, now, tickers, progVars, histVars, callVars, messages, readers>>

Contains_Delete(t) ==
    /\ pc[t] = "Con53"
    /\ messages' = Delete(messages, arg[t])
    /\ sweepRun' = 0
    /\ Goto(t, "Con54")
    /\ UNCHANGED <<ioVars, now, tickers, progVars, lastAdd, sendCount, failed, cycleSent,
                   queried, lockVars, callVars>>

\* line 54 left out: the write lock is still held at the RLock of line 55
Contains_Unlock_Missing(t) ==
    /\ pc[t] = "Con54"
    /\ Goto(t, "Con55")
    /\ UNCHANGED <<ioVars, now, tickers, progVars, histVars, callVars, messages,
                   lockVars>>

Contains_Unlock(t) ==
    /\ pc[t] = "Con54"
    /\ wOwner' = "none"
    /\ Goto(t, "Con55")
    /\ UNCHANGED <<ioVars, now, tickers, progVars, histVars, callVars, messages, readers>>

Contains_RLockAgain(t) ==
    /\ pc[t] = "Con55"
    /\ CanRLock
    /\ readers' = readers \cup {t}
    /\ Goto(t, "Con57")
    /\ UNCHANGED <<ioVars, now, tickers, progVars, histVars, callVars, messages, wOwner>>

\* line 57 and the deferred RUnlock
Contains_ReturnFalse(t) ==
    /\ pc[t] = "Con57"
    /\ readers' = readers \ {t}
    /\ result' = [result EXCEPT ![t] = FALSE]
    /\ timestamp' = [timestamp EXCEPT ![t] = 0]
    /\ arg' = [arg EXCEPT ![t] = IF t = Poll THEN arg[t] ELSE NoMsg]
    /\ Goto(t, AfterContains(t))
    /\ UNCHANGED <<ioVars, now, tickers, progVars, histVars, messages, wOwner>>

Cleanup_Lock(t) ==
    /\ pc[t] = "Cln62"
    /\ CanLock
    /\ wOwner' = t
    /\ Goto(t, "Cln65")
    /\ UNCHANGED <<ioVars, now, tickers, progVars, histVars, callVars, messages, readers>>

\* lines 65-70 with a break after the first delete
Swept_OneEntry(m, t) ==
    LET stale == {k \in DOMAIN m : Stale(m[k], t)}
    IN  IF stale = {} THEN m
        ELSE LET gone == CHOOSE k \in stale : TRUE
             IN  [x \in DOMAIN m \ {gone} |-> m[x]]

\* lines 65-70: now is read once, then every entry is tested against it
Swept(m, t) == [x \in {k \in DOMAIN m : ~Stale(m[k], t)} |-> m[x]]

Cleanup_Sweep(t) ==
    /\ pc[t] = "Cln65"
    /\ messages' = Swept(messages, now)
    /\ sweepRun' = IF sweepRun < 2 THEN sweepRun + 1 ELSE sweepRun
    /\ Goto(t, "Cln71")
    /\ UNCHANGED <<ioVars, now, tickers, progVars, lastAdd, sendCount, failed, cycleSent,
                   queried, lockVars, callVars>>

Cleanup_Unlock(t) ==
    /\ pc[t] = "Cln71"
    /\ wOwner' = "none"
    /\ Goto(t, AfterCleanup(t))
    /\ UNCHANGED <<ioVars, now, tickers, progVars, histVars, callVars, messages, readers>>

CacheStep(t) ==
    \/ Add_Lock(t) \/ Add_Store(t) \/ Add_Unlock(t)
    \/ Contains_RLock(t) \/ Contains_Lookup(t) \/ Contains_ReturnTrue(t)
    \/ Contains_RUnlock(t) \/ Contains_Lock(t) \/ Contains_Delete(t)
    \/ Contains_Unlock(t) \/ Contains_RLockAgain(t) \/ Contains_ReturnFalse(t)
    \/ Cleanup_Lock(t) \/ Cleanup_Sweep(t) \/ Cleanup_Unlock(t)

----------------------------------------------------------------------------
(* main: startup *)

\* line 190-193
LoadConfig ==
    /\ pc[Poll] = "L190"
    /\ LET r == loadConfig(environ)
       IN  /\ cfg' = r.config
           /\ Goto(Poll, IF r.err = "" THEN "L195" ELSE "exited")
    /\ UNCHANGED <<ioVars, now, tickers, pattern, interval, matches, idx, histVars,
                   lockVars, callVars, messages>>

\* line 195-198 with the error of regexp.Compile dropped
CompilePattern_IgnoreError ==
    /\ pc[Poll] = "L195"
    /\ pattern' = Compile(cfg.pattern).re
    /\ Goto(Poll, "L200")
    /\ UNCHANGED <<ioVars, now, tickers, cfg, interval, matches, idx, histVars,
                   lockVars, callVars, messages>>

\* line 195-198
CompilePattern ==
    /\ pc[Poll] = "L195"
    /\ LET r == Compile(cfg.pattern)
       IN  /\ pattern' = r.re
           /\ Goto(Poll, IF r.ok THEN "L200" ELSE "exited")
    /\ UNCHANGED <<ioVars, now, tickers, cfg, interval, matches, idx, histVars,
                   lockVars, callVars, messages>>

\* line 200-203
ParseInterval ==
    /\ pc[Poll] = "L200"
    /\ LET r == ParseDuration(cfg.interval)
       IN  /\ interval' = r.d
           /\ Goto(Poll, IF r.ok THEN "L206" ELSE "exited")
    /\ UNCHANGED <<ioVars, now, tickers, cfg, pattern, matches, idx, histVars,
                   lockVars, callVars, messages>>

\* line 206-215: the cache is created empty and the cleanup goroutine started
StartCleanup ==
    /\ pc[Poll] = "L206"
    /\ messages' = <<>>
    /\ pc' = [pc EXCEPT ![Poll] = "L221", ![Sweep] = "L210"]
    /\ UNCHANGED <<ioVars, now, tickers, progVars, histVars, lockVars, callVars>>

\* line 221
StartPollTicker ==
    /\ pc[Poll] = "L221"
    /\ tickers' = [tickers EXCEPT ![Poll] = NewTicker(interval, now)]
    /\ Goto(Poll, "L226")
    /\ UNCHANGED <<ioVars, now, progVars, histVars, lockVars, callVars, messages>>

----------------------------------------------------------------------------
(* main: the poll loop, queryLoki and sendSlackNotification *)

\* line 226-238 with the cycle started as a goroutine of its own (go func),
\* here c1 at its first cache call, while the loop goes back to waiting
PollTick_Spawn ==
    /\ pc[Poll] = "L226"
    /\ tickers[Poll].pending
    /\ pc["c1"] = "idle"
    /\ tickers' = [tickers EXCEPT ![Poll].pending = FALSE]
    /\ pc' = [pc EXCEPT !["c1"] = "Con43"]
    /\ arg' = [arg EXCEPT !["c1"] = Render(LineCritical)]
    /\ UNCHANGED <<ioVars, now, progVars, histVars, lockVars, timestamp, result,
                   messages>>

\* line 226
PollTick ==
    /\ pc[Poll] = "L226"
    /\ tickers[Poll].pending
    /\ tickers' = [tickers EXCEPT ![Poll].pending = FALSE]
    /\ Goto(Poll, "L227")
    /\ UNCHANGED <<ioVars, now, progVars, histVars, lockVars, callVars, messages>>

\* line 227 and lines 140-143: queryLoki builds the request from the clock
\* and the query and hands it to client.Query
NoQuery == <<>>

QueryCall ==
    /\ pc[Poll] = "L227"
    /\ q' = [query |-> cfg.query, start |-> now - Lookback, end |-> now]
    /\ queried' = TRUE
    /\ Goto(Poll, "L143")
    /\ UNCHANGED <<environ, now, tickers, progVars, lastAdd, sendCount, failed, cycleSent,
                   sweepRun, lockVars, callVars, messages>>

\* queryLoki returns the matches (lines 143-157), main tests them (line 233)
QueryOk(values) ==
    /\ pc[Poll] = "L143"
    /\ q' = NoQuery
    /\ LET found == Matches(pattern, values)
       IN  IF Len(found) > 0
           THEN /\ matches' = found
                /\ idx' = 1
                /\ Goto(Poll, "L163")
           ELSE /\ matches' = <<>>
                /\ idx' = 0
                /\ Goto(Poll, "L226")
    /\ UNCHANGED <<environ, now, tickers, cfg, pattern, interval, histVars,
                   lockVars, callVars, messages>>

\* client.Query fails: queryLoki returns the error (lines 143-146)
QueryFail ==
    /\ pc[Poll] = "L143"
    /\ q' = NoQuery
    /\ Goto(Poll, "L229")
    /\ UNCHANGED <<environ, now, tickers, progVars, histVars, lockVars, callVars,
                   messages>>

\* line 228-231 without the continue, the lines of a partial result in use
LogQueryError_NoContinue ==
    /\ pc[Poll] = "L229"
    /\ matches' = <<Render(LineCritical)>>
    /\ idx' = 1
    /\ Goto(Poll, "L163")
    /\ UNCHANGED <<ioVars, now, tickers, cfg, pattern, interval, histVars, lockVars,
                   callVars, messages>>

\* line 228-231: the error is logged and the loop continues
LogQueryError ==
    /\ pc[Poll] = "L229"
    /\ Goto(Poll, "L226")
    /\ UNCHANGED <<ioVars, now, tickers, progVars, histVars, lockVars, callVars, messages>>

\* line 163-165: the next message of the batch, or return nil (line 183)
LoopNext ==
    /\ pc[Poll] = "L163"
    /\ IF idx <= Len(matches)
       THEN /\ arg' = [arg EXCEPT ![Poll] = matches[idx]]
            /\ Goto(Poll, "Con43")
            /\ UNCHANGED <<matches, idx, cycleSent>>
       ELSE /\ arg' = [arg EXCEPT ![Poll] = NoMsg]
            /\ matches' = <<>>
            /\ idx' = 0
            /\ cycleSent' = {}
            /\ Goto(Poll, "L226")
    /\ UNCHANGED <<ioVars, now, tickers, cfg, pattern, interval, lastAdd, sendCount,
                   failed, queried, sweepRun, lockVars, timestamp, result, messages>>

\* line 165 with the test negated
AfterLookup_Negated ==
    /\ pc[Poll] = "L165r"
    /\ IF ~result[Poll]
       THEN /\ idx' = idx + 1
            /\ Goto(Poll, "L163")
       ELSE /\ idx' = idx
            /\ Goto(Poll, "L170")
    /\ UNCHANGED <<ioVars, now, tickers, cfg, pattern, interval, matches, histVars,
                   lockVars, callVars, messages>>

\* line 165-168: a duplicate is skipped
AfterLookup ==
    /\ pc[Poll] = "L165r"
    /\ IF result[Poll]
       THEN /\ idx' = idx + 1
            /\ Goto(Poll, "L163")
       ELSE /\ idx' = idx
            /\ Goto(Poll, "L170")
    /\ UNCHANGED <<ioVars, now, tickers, cfg, pattern, interval, matches, histVars,
                   lockVars, callVars, messages>>

\* line 170-179: PostMessage succeeded, Add is called
PostMessageOk ==
    /\ pc[Poll] = "L170"
    /\ sendCount' = [sendCount EXCEPT ![arg[Poll]] = @ + 1]
    /\ failed' = failed \ {arg[Poll]}
    /\ cycleSent' = cycleSent \cup {arg[Poll]}
    /\ Goto(Poll, "Add36")
    /\ UNCHANGED <<ioVars, now, tickers, progVars, lastAdd, queried, sweepRun,
                   lockVars, callVars, messages>>

\* line 174-179 without the test of err: Add is called after a failed send
PostMessageFail_AddAnyway ==
    /\ pc[Poll] = "L170"
    /\ failed' = failed \cup {arg[Poll]}
    /\ Goto(Poll, "Add36")
    /\ UNCHANGED <<ioVars, now, tickers, progVars, lastAdd, sendCount, cycleSent,
                   queried, sweepRun, lockVars, callVars, messages>>

\* line 174-176: PostMessage failed, sendSlackNotification returns the error
PostMessageFail ==
    /\ pc[Poll] = "L170"
    /\ failed' = failed \cup {arg[Poll]}
    /\ Goto(Poll, "L236")
    /\ UNCHANGED <<ioVars, now, tickers, progVars, lastAdd, sendCount, cycleSent,
                   queried, sweepRun, lockVars, callVars, messages>>

\* line 180-181
AfterAddStep ==
    /\ pc[Poll] = "L180"
    /\ idx' = idx + 1
    /\ Goto(Poll, "L163")
    /\ UNCHANGED <<ioVars, now, tickers, cfg, pattern, interval, matches, histVars,
                   lockVars, callVars, messages>>

\* line 235-237 with log.Fatalf in place of log.Printf
LogSendError_Fatal ==
    /\ pc[Poll] = "L236"
    /\ matches' = <<>>
    /\ idx' = 0
    /\ arg' = [arg EXCEPT ![Poll] = NoMsg]
    /\ cycleSent' = {}
    /\ Goto(Poll, "exited")
    /\ UNCHANGED <<ioVars, now, tickers, cfg, pattern, interval, lastAdd, sendCount,
                   failed, queried, sweepRun, lockVars, timestamp, result, messages>>

\* line 235-237
LogSendError ==
    /\ pc[Poll] = "L236"
    /\ matches' = <<>>
    /\ idx' = 0
    /\ arg' = [arg EXCEPT ![Poll] = NoMsg]
    /\ cycleSent' = {}
    /\ Goto(Poll, "L226")
    /\ UNCHANGED <<ioVars, now, tickers, cfg, pattern, interval, lastAdd, sendCount,
                   failed, queried, sweepRun, lockVars, timestamp, result, messages>>

----------------------------------------------------------------------------
(* main: the cleanup goroutine, lines 209-215 *)

\* line 210
StartSweepTicker ==
    /\ pc[Sweep] = "L210"
    /\ tickers' = [tickers EXCEPT ![Sweep] = NewTicker(SweepPeriod, now)]
    /\ Goto(Sweep, "L212")
    /\ UNCHANGED <<ioVars, now, progVars, histVars, lockVars, callVars, messages>>

\* line 212-213
SweepTick ==
    /\ pc[Sweep] = "L212"
    /\ pc[Poll] # "exited"
    /\ tickers[Sweep].pending
    /\ tickers' = [tickers EXCEPT ![Sweep].pending = FALSE]
    /\ Goto(Sweep, "Cln62")
    /\ UNCHANGED <<ioVars, now, progVars, histVars, lockVars, callVars, messages>>

----------------------------------------------------------------------------
(* The program *)

\* the process starts in one of the environments `inputs`
Start(inputs) ==
    /\ now = 0
    /\ cfg = Defaults
    /\ pattern = {}
    /\ interval = 0
    /\ tickers = [k \in {Poll, Sweep} |-> NoTicker]
    /\ pc = [t \in Procs |-> IF t = Poll THEN "L190"
                             ELSE IF t = Sweep THEN "notStarted" ELSE "idle"]
    /\ arg = [t \in Procs |-> NoMsg]
    /\ timestamp = [t \in Procs |-> 0]
    /\ result = [t \in Procs |-> FALSE]
    /\ messages = <<>>
    /\ wOwner = "none"
    /\ readers = {}
    /\ matches = <<>>
    /\ idx = 0
    /\ lastAdd = <<>>
    /\ sendCount = [m \in Rendered |-> 0]
    /\ failed = {}
    /\ cycleSent = {}
    /\ queried = FALSE
    /\ sweepRun = 0
    /\ environ \in inputs
    /\ q = NoQuery

Init == Start(ConfigInputs)

PollCache == CacheStep(Poll)
SweepCache == CacheStep(Sweep)

Next ==
    \/ Tick
    \/ LoadConfig \/ CompilePattern \/ ParseInterval \/ StartCleanup
    \/ StartPollTicker
    \/ PollTick \/ QueryCall
    \/ \E values \in QueryResults : QueryOk(values)
    \/ QueryFail \/ LogQueryError
    \/ LoopNext \/ AfterLookup \/ PostMessageOk \/ PostMessageFail
    \/ AfterAddStep \/ LogSendError
    \/ StartSweepTicker \/ SweepTick
    \/ PollCache
    \/ SweepCache

Spec == Init /\ [][Next]_vars

----------------------------------------------------------------------------
(* The cache on its own: goroutines that call Add, Contains and Cleanup *)
(* in any order and at any time, as a concurrent test of MessageCache   *)
(* does.                                                                *)

Keys == {Render(LineCritical), Render(LineException)}

CallAdd(t, m) ==
    /\ pc[t] = "idle"
    /\ arg' = [arg EXCEPT ![t] = m]
    /\ Goto(t, "Add36")
    /\ UNCHANGED <<ioVars, now, tickers, progVars, histVars, lockVars, timestamp, result,
                   messages>>

CallContains(t, m) ==
    /\ pc[t] = "idle"
    /\ arg' = [arg EXCEPT ![t] = m]
    /\ Goto(t, "Con43")
    /\ UNCHANGED <<ioVars, now, tickers, progVars, histVars, lockVars, timestamp, result,
                   messages>>

CallCleanup(t) ==
    /\ pc[t] = "idle"
    /\ Goto(t, "Cln62")
    /\ UNCHANGED <<ioVars, now, tickers, progVars, histVars, lockVars, callVars, messages>>

InitCache ==
    /\ now = 0
    /\ cfg = Defaults
    /\ pattern = {}
    /\ interval = 0
    /\ tickers = [k \in {Poll, Sweep} |-> NoTicker]
    /\ pc = [t \in Procs |-> "idle"]
    /\ arg = [t \in Procs |-> NoMsg]
    /\ timestamp = [t \in Procs |-> 0]
    /\ result = [t \in Procs |-> FALSE]
    /\ messages = <<>>
    /\ wOwner = "none"
    /\ readers = {}
    /\ matches = <<>>
    /\ idx = 0
    /\ lastAdd = <<>>
    /\ sendCount = [m \in Rendered |-> 0]
    /\ failed = {}
    /\ cycleSent = {}
    /\ queried = FALSE
    /\ sweepRun = 0
    /\ environ = With(NoFile, NoEnv)
    /\ q = NoQuery

NextCache ==
    \/ Tick
    \/ \E t \in Clients :
         \/ \E m \in Keys : CallAdd(t, m) \/ CallContains(t, m)
         \/ CallCleanup(t)
         \/ CacheStep(t)

SpecCache == InitCache /\ [][NextCache]_vars

----------------------------------------------------------------------------
(* Properties *)

Age(m, f) == now - m[f]

\* a step of goroutine t from position p
Leaves(t, p) == pc[t] = p /\ pc'[t] # p

ContainsPcs == {"Con43", "Con46", "Con48", "Con51", "Con52", "Con53", "Con54",
                "Con55", "Con57"}

\* C1: duplicate suppression.  A message is sent successfully a second time
\* only when the Add that followed its previous successful send has
\* completed and lies at least one window back; so two successful sends of
\* one message are at least one window apart.
C1_Step ==
    \A m \in Rendered :
        (sendCount'[m] > sendCount[m] /\ sendCount[m] > 0)
            => (m \in DOMAIN lastAdd /\ now - lastAdd[m] >= Window)

C1_DuplicateSuppression == [][C1_Step]_vars

\* a message has been sent a second time
C1_Witness == \E m \in Rendered : sendCount[m] >= 2

\* C2: the lookup of Contains(f) answers true exactly when an Add(f) was made
\* and the last one is less than one window old, and that answer is the
\* value Contains returns.
C2_Step ==
    \A t \in Procs :
        /\ Leaves(t, "Con46") =>
              ((pc'[t] = "Con48") <=>
                  (arg[t] \in DOMAIN lastAdd /\ now - lastAdd[arg[t]] < Window))
        /\ Leaves(t, "Con46") => pc'[t] \in {"Con48", "Con51", "Con57"}
        /\ Leaves(t, "Con48") => result'[t] = TRUE
        /\ Leaves(t, "Con57") => result'[t] = FALSE
        /\ (pc[t] \in {"Con51", "Con52", "Con53", "Con54", "Con55"} /\ pc'[t] # pc[t])
              => pc'[t] \in {"Con52", "Con53", "Con54", "Con55", "Con57"}

C2_ContainsContract == [][C2_Step]_vars

\* Contains has returned false for a message whose entry was added at least
\* one window ago
C2_Witness ==
    /\ pc[Poll] = "L165r"
    /\ ~result[Poll]
    /\ arg[Poll] \in DOMAIN lastAdd
    /\ now - lastAdd[arg[Poll]] >= Window

\* C3: Add is called only for the message whose send has just succeeded; a
\* failed send changes no entry and leaves the message without an entry
\* until a send of it succeeds, so the next lookup of it answers false and
\* the send is made again.
C3_Step ==
    /\ (pc'[Poll] = "Add36" /\ pc[Poll] # "Add36")
          => /\ pc[Poll] = "L170"
             /\ arg'[Poll] = arg[Poll]
             /\ sendCount'[arg[Poll]] = sendCount[arg[Poll]] + 1
    /\ (failed' # failed \/ Leaves(Poll, "L236")) => messages' = messages
    /\ (pc[Poll] = "L170" /\ pc'[Poll] = "L236") => arg[Poll] \in failed'
    /\ (Leaves(Poll, "L165r") /\ arg[Poll] \in failed) => pc'[Poll] = "L170"

C3_State ==
    /\ \A m \in failed : m \notin DOMAIN messages
    /\ (pc[Poll] = "L165r" /\ arg[Poll] \in failed) => ~result[Poll]

C3_AddOnlyAfterSuccess == [](C3_State) /\ [][C3_Step]_vars

\* the send of a message whose previous send failed is about to be made again
C3_Witness == pc[Poll] = "L170" /\ arg[Poll] \in failed /\ now >= 2 * TickStep

\* C4: a failed send does not end the batch.  When the failure of a send is
\* reported, every later message of the batch other than the failed one has
\* its entry in the cache (it was a duplicate, or it was sent and added),
\* and the failed message has none.
C4_BatchContinuesAfterFailure ==
    pc[Poll] = "L236" =>
        /\ matches[idx] \notin DOMAIN messages
        /\ \A j \in (idx + 1)..Len(matches) :
              matches[j] = matches[idx] \/ matches[j] \in DOMAIN messages

\* C5: the eviction of Contains is atomic.  Whenever Contains deletes an
\* entry, the entry it deletes is an expired one; no entry written by an Add
\* less than one window ago is deleted.
C5_Step ==
    \A t \in Procs :
        (pc[t] = "Con53" /\ pc'[t] = "Con54" /\ arg[t] \in DOMAIN messages)
            => Age(messages, arg[t]) >= Window

C5_EvictionAtomic == [][C5_Step]_vars

\* C6: Cleanup keeps every entry younger than the window, with its
\* timestamp, removes every entry older than the window, and adds or
\* changes none.
C6_Step ==
    \A t \in Procs :
        (pc[t] = "Cln65" /\ pc'[t] = "Cln71") =>
            /\ DOMAIN messages' \subseteq DOMAIN messages
            /\ \A f \in DOMAIN messages' : messages'[f] = messages[f]
            /\ \A f \in DOMAIN messages :
                  /\ Age(messages, f) < Window => f \in DOMAIN messages'
                  /\ Age(messages, f) > Window => f \notin DOMAIN messages'

C6_SweepExact == [][C6_Step]_vars

\* Cleanup has run its loop; an entry older than the window that no lookup
\* evicted is gone and a younger one is kept
C6_Witness ==
    /\ pc[Sweep] = "Cln71"
    /\ \E f \in DOMAIN lastAdd :
          /\ f \notin DOMAIN messages
          /\ f \notin failed
          /\ sendCount[f] = 1
          /\ arg[Poll] # f
          /\ now - lastAdd[f] > Window
    /\ \E g \in DOMAIN messages : Age(messages, g) < Window

\* C7: a lookup that finds an expired entry takes the eviction path; when
\* Contains(f) has deleted, and when it returns false, f has no entry, so
\* Cleanup then finds nothing of f; no step of Contains(f) adds, changes or
\* removes an entry of another key; and the store of Add(f) sets the entry of
\* f to the time of the store and touches no other entry.
C7_Step ==
    \A t \in {Poll, Sweep} :
        /\ (Leaves(t, "Con46") /\ arg[t] \in DOMAIN messages
               /\ Age(messages, arg[t]) >= Window) => pc'[t] = "Con51"
        /\ (pc[t] \in ContainsPcs /\ pc'[t] # pc[t]) =>
              /\ DOMAIN messages' \subseteq DOMAIN messages
              /\ \A g \in DOMAIN messages \ {arg[t]} :
                    g \in DOMAIN messages' /\ messages'[g] = messages[g]
        /\ (pc[t] = "Con53" /\ pc'[t] = "Con54") => arg[t] \notin DOMAIN messages'
        /\ (pc[t] = "Add38" /\ pc'[t] = "Add39") =>
              /\ arg[t] \in DOMAIN messages' /\ messages'[arg[t]] = now
              /\ DOMAIN messages' = DOMAIN messages \cup {arg[t]}
              /\ \A g \in DOMAIN messages \ {arg[t]} : messages'[g] = messages[g]

C7_State ==
    /\ pc[Poll] \in {"Con54", "Con55", "Con57", "L170"}
          => arg[Poll] \notin DOMAIN messages
    /\ (pc[Poll] = "L165r" /\ ~result[Poll]) => arg[Poll] \notin DOMAIN messages

C7_LazyEviction == [](C7_State) /\ [][C7_Step]_vars

\* Contains has just deleted the expired entry of its key while the entry of
\* another key is still in the map
C7_Witness ==
    /\ pc[Poll] = "Con54"
    /\ arg[Poll] \in DOMAIN lastAdd
    /\ now - timestamp[Poll] >= Window
    /\ \E g \in DOMAIN messages : g # arg[Poll]

\* C8: the cycles of one message.  A send is followed by the Add that
\* records the time; a lookup in a later cycle answers true while that time
\* is less than one window back and false from then on; on true the message
\* is skipped without a send, on false PostMessage is called, and the Add
\* after it records the new time.
C8_Step ==
    /\ Leaves(Poll, "Con46") =>
          ((pc'[Poll] = "Con48") <=>
              (arg[Poll] \in DOMAIN lastAdd /\ now - lastAdd[arg[Poll]] < Window))
    /\ (Leaves(Poll, "L165r") /\ result[Poll]) =>
          /\ pc'[Poll] = "L163" /\ idx' = idx + 1
          /\ sendCount' = sendCount /\ messages' = messages
    /\ (Leaves(Poll, "L165r") /\ ~result[Poll]) => pc'[Poll] = "L170"
    /\ (pc[Poll] = "L170" /\ sendCount' # sendCount) =>
          /\ pc'[Poll] = "Add36" /\ arg'[Poll] = arg[Poll]
          /\ sendCount' = [sendCount EXCEPT ![arg[Poll]] = @ + 1]
    /\ Leaves(Poll, "Add38") =>
          /\ messages'[arg[Poll]] = now
          /\ lastAdd'[arg[Poll]] = now

C8_State ==
    /\ (pc[Poll] = "L165r" /\ result[Poll]) =>
          /\ arg[Poll] \in DOMAIN lastAdd
          /\ arg[Poll] \in DOMAIN messages
                => messages[arg[Poll]] = lastAdd[arg[Poll]]
    /\ \A m \in Rendered :
          (sendCount[m] > 0 /\ ~(pc[Poll] \in {"Add36", "Add38"} /\ arg[Poll] = m))
              => m \in DOMAIN lastAdd

C8_EndToEnd == [](C8_State) /\ [][C8_Step]_vars

\* a message has been sent, sent again one window later, and the second
\* Add has recorded its time
C8_Witness ==
    \E m \in Rendered :
        /\ sendCount[m] = 2
        /\ pc[Poll] = "L180"
        /\ m \in DOMAIN messages
        /\ messages[m] >= Window + TickStep

\* C9: a cycle whose query fails goes from the query to the log of the error
\* and back to waiting; on the way no entry of the cache changes, no lock is
\* taken, no cache call is entered and nothing is sent.
C9_Step ==
    (pc[Poll] = "L229" \/ (pc[Poll] = "L143" /\ pc'[Poll] = "L229")) =>
        /\ pc'[Poll] \in {"L229", "L226"}
        /\ (wOwner' = Poll) = (wOwner = Poll)
        /\ (Poll \in readers') = (Poll \in readers)
        /\ arg'[Poll] = arg[Poll]
        /\ (pc'[Poll] # pc[Poll]) =>
              messages' = messages /\ sendCount' = sendCount /\ failed' = failed

C9_State ==
    pc[Poll] = "L229" =>
        /\ wOwner # Poll /\ Poll \notin readers
        /\ arg[Poll] = NoMsg /\ matches = <<>> /\ idx = 0

C9_QueryFailureSkipsCycle == [](C9_State) /\ [][C9_Step]_vars

\* a query has failed while the cache holds an entry
C9_Witness == pc[Poll] = "L229" /\ DOMAIN messages # {}

\* C10: startup validation.  Past loadConfig the token and the channel are
\* not empty and past regexp.Compile the pattern compiles; a process that
\* exited at startup has started no cleanup goroutine and no ticker, made no
\* query and no send, and stays exited.
ValidCredentials == cfg.token # "" /\ cfg.channel # ""

C10_State ==
    /\ pc[Poll] \notin {"L190", "exited"} => ValidCredentials
    /\ pc[Poll] \notin {"L190", "L195", "exited"} => Compile(cfg.pattern).ok
    /\ (pc[Sweep] # "notStarted" \/ queried \/ tickers[Poll].on \/ tickers[Sweep].on)
          => (ValidCredentials /\ Compile(cfg.pattern).ok /\ pc[Poll] # "exited")
    /\ pc[Poll] = "exited" =>
          /\ pc[Sweep] = "notStarted"
          /\ ~queried
          /\ \A m \in Rendered : sendCount[m] = 0
          /\ messages = <<>> /\ failed = {}

C10_Step == pc[Poll] = "exited" => (pc'[Poll] = "exited" /\ pc'[Sweep] = pc[Sweep])

C10_StartupValidationFatal == [](C10_State) /\ [][C10_Step]_vars

\* the process has exited because the pattern does not compile
C10_Witness == pc[Poll] = "exited" /\ ValidCredentials /\ ~Compile(cfg.pattern).ok

\* the process has exited because the token or the channel is empty
C10_WitnessCredentials == pc[Poll] = "exited" /\ ~ValidCredentials

----------------------------------------------------------------------------
(* The program under fair scheduling: a goroutine that can take a step    *)
(* eventually takes one, and a call to Loki or to Slack returns.  The     *)
(* fair runs start from the environments that poll every 30 minutes.      *)

PollStep ==
    \/ LoadConfig \/ CompilePattern \/ ParseInterval \/ StartCleanup
    \/ StartPollTicker
    \/ PollTick \/ QueryCall
    \/ \E values \in QueryResults : QueryOk(values)
    \/ QueryFail \/ LogQueryError
    \/ LoopNext \/ AfterLookup \/ PostMessageOk \/ PostMessageFail
    \/ AfterAddStep \/ LogSendError
    \/ PollCache

SweepStep == StartSweepTicker \/ SweepTick \/ SweepCache

InitFair == Init /\ loadConfig(environ).config.interval = "30m"

SpecFair == InitFair /\ [][Next]_vars /\ WF_vars(PollStep) /\ WF_vars(SweepStep)

StartupPcs == {"L190", "L195", "L200", "L206", "L221"}

\* C11: once startup is over neither task ever ends: the poll goroutine
\* never exits and never goes back into startup, the cleanup goroutine stays
\* started and no ticker is stopped, whatever a query or a send returns; and
\* under fair scheduling every poll tick delivered is followed by a cycle
\* that issues its query, and every sweep tick delivered by a run of the
\* loop of Cleanup.
C11_Step ==
    /\ (pc[Poll] \notin StartupPcs) => pc'[Poll] \notin ({"exited"} \cup StartupPcs)
    /\ (pc[Sweep] # "notStarted") => pc'[Sweep] # "notStarted"
    /\ \A k \in {Poll, Sweep} : tickers[k].on => tickers'[k].on

C11_PollTickRuns ==
    tickers[Poll].pending ~> (pc[Poll] = "L143" /\ ~tickers[Poll].pending)

C11_SweepTickRuns ==
    tickers[Sweep].pending ~> (pc[Sweep] = "Cln71" /\ ~tickers[Sweep].pending)

C11_TasksKeepRunning ==
    [][C11_Step]_vars /\ C11_PollTickRuns /\ C11_SweepTickRuns

\* a send has failed in an earlier cycle and the cycle of a later tick has
\* issued its query
C11_Witness == pc[Poll] = "L143" /\ failed # {} /\ q.end >= 2 * 30 * Minute

----------------------------------------------------------------------------
(* Cleanup on its own: a goroutine that calls Cleanup again and again at  *)
(* one instant, on every content the cache can have at that instant.      *)

Sweeper == "c1"

Times == {k * TickStep : k \in 0..(MaxTime \div TickStep)}

\* the contents of the cache at time t: any messages, each added at some
\* time up to t
Caches(t) == UNION {[D -> {ts \in Times : ts <= t}] : D \in SUBSET Rendered}

InitSweep ==
    /\ now \in Times
    /\ messages \in Caches(now)
    /\ lastAdd = messages
    /\ cfg = Defaults
    /\ pattern = {}
    /\ interval = 0
    /\ tickers = [k \in {Poll, Sweep} |-> NoTicker]
    /\ pc = [t \in Procs |-> "idle"]
    /\ arg = [t \in Procs |-> NoMsg]
    /\ timestamp = [t \in Procs |-> 0]
    /\ result = [t \in Procs |-> FALSE]
    /\ wOwner = "none"
    /\ readers = {}
    /\ matches = <<>>
    /\ idx = 0
    /\ sendCount = [m \in Rendered |-> 0]
    /\ failed = {}
    /\ cycleSent = {}
    /\ queried = FALSE
    /\ sweepRun = 0
    /\ environ = With(NoFile, NoEnv)
    /\ q = NoQuery

NextSweep ==
    \/ CallCleanup(Sweeper)
    \/ Cleanup_Lock(Sweeper)
    \/ Cleanup_Sweep(Sweeper)
    \/ Cleanup_Unlock(Sweeper)

SpecSweep == InitSweep /\ [][NextSweep]_vars

\* C12: Cleanup is idempotent at one instant.  The map a run of the loop of
\* Cleanup leaves is a fixed point of the loop at the same instant, and a run
\* that follows another run at the same instant, with no Add and no delete
\* in between, leaves the map as it found it.
C12_Step ==
    \A t \in Procs :
        (pc[t] = "Cln65" /\ pc'[t] = "Cln71") =>
            /\ now' = now
            /\ Swept(messages', now') = messages'
            /\ (sweepRun >= 1) => messages' = messages

C12_SweepIdempotent == [][C12_Step]_vars

\* Cleanup has run twice in succession at one instant, the first run removed
\* an entry and kept another
C12_Witness ==
    /\ sweepRun = 2
    /\ pc[Sweeper] = "Cln71"
    /\ DOMAIN messages # {}
    /\ DOMAIN messages # DOMAIN lastAdd

----------------------------------------------------------------------------
(* loadConfig on its own: the process starts in every combination of a    *)
(* config file that sets some of the six fields and an environment that   *)
(* sets some of the six variables.                                        *)

FileValues ==
    [endpoint |-> "http://loki.file:3100",
     query    |-> "{app=file}",
     pattern  |-> "(",
     interval |-> "abc",
     token    |-> "xoxb-file",
     channel  |-> "#file"]

EnvValues ==
    [endpoint |-> "http://loki.env:3100",
     query    |-> "{app=env}",
     pattern  |-> "critical",
     interval |-> "30m",
     token    |-> "xoxb-env",
     channel  |-> "#alerts"]

\* a file sets the fields D, the credentials among them possibly to ""
AllFiles ==
    {[f \in D |-> IF f \in E THEN "" ELSE FileValues[f]] :
        D \in SUBSET Fields, E \in SUBSET {"token", "channel"}}

AllEnvs == {[f \in Fields |-> IF f \in S THEN EnvValues[f] ELSE ""] : S \in SUBSET Fields}

ConfigSpace ==
    {With(File(kv), env) : kv \in AllFiles, env \in AllEnvs}
       \cup {With(NoFile, env) : env \in AllEnvs}
       \cup {With([File(FileCreds) EXCEPT !.readable = FALSE], env) : env \in AllEnvs}
       \cup {With([File(FileCreds) EXCEPT !.parses = FALSE], env) : env \in AllEnvs}

InitConfig == Start(ConfigSpace)

NextConfig == LoadConfig \/ CompilePattern \/ ParseInterval

SpecConfig == InitConfig /\ [][NextConfig]_vars

\* C13: configuration precedence.  The value of a field is the environment
\* variable when that is not empty, otherwise the value of the config file
\* when the file sets the field, otherwise the default; loadConfig fails when
\* that value is empty for the token or for the channel, and with a file that
\* is absent or loads it fails in no other case.
Effective(in, f) ==
    IF in.env[f] # "" THEN in.env[f]
    ELSE IF in.exists /\ f \in DOMAIN in.file THEN in.file[f]
    ELSE Defaults[f]

C13_Step ==
    (pc[Poll] = "L190" /\ pc'[Poll] # "L190") =>
        LET missing == Effective(environ, "token") = ""
                          \/ Effective(environ, "channel") = ""
            usable  == ~environ.exists \/ (environ.readable /\ environ.parses)
        IN  /\ missing => pc'[Poll] = "exited"
            /\ (usable /\ ~missing) => pc'[Poll] = "L195"
            /\ (pc'[Poll] = "L195") =>
                  \A f \in Fields : cfg'[f] = Effective(environ, f)

C13_ConfigPrecedence == [][C13_Step]_vars

\* one load in which the token comes from the environment although the file
\* sets it, the endpoint from the file and the query from the defaults
C13_Witness ==
    /\ pc[Poll] = "L195"
    /\ environ.exists /\ {"token", "endpoint"} \subseteq DOMAIN environ.file
    /\ "query" \notin DOMAIN environ.file
    /\ cfg.token = EnvValues.token
    /\ cfg.endpoint = FileValues.endpoint
    /\ cfg.query = Defaults.query

\* positions at which a call writes the map (the store of Add, the delete of
\* Contains, the loop of Cleanup) and at which it reads it (the lookup)
WritePcs == {"Add38", "Con53", "Cln65"}
ReadPcs == {"Con46"}

\* C14: mutual exclusion of map access.  A call that is about to write or
\* delete holds the lock exclusively: no goroutine holds the read lock and no
\* other call is at a read or a write of the map; a call that is about to
\* read holds the read lock while no goroutine holds the write lock; and the
\* map changes only in a step of the goroutine that holds the write lock.
C14_State ==
    \A t \in Procs :
        /\ pc[t] \in WritePcs =>
              /\ wOwner = t
              /\ readers = {}
              /\ \A u \in Procs \ {t} : pc[u] \notin (WritePcs \cup ReadPcs)
        /\ pc[t] \in ReadPcs =>
              /\ t \in readers
              /\ wOwner = "none"
              /\ \A u \in Procs \ {t} : pc[u] \notin WritePcs

C14_Step ==
    (messages' # messages) =>
        /\ wOwner \in Procs
        /\ readers = {}
        /\ pc[wOwner] \in WritePcs
        /\ pc'[wOwner] # pc[wOwner]

C14_MutualExclusion == [](C14_State) /\ [][C14_Step]_vars

\* one call deletes an expired entry while the other waits for the lock
C14_Witness ==
    /\ pc["c1"] = "Con53"
    /\ pc["c2"] \in {"Add36", "Con43", "Cln62"}
    /\ arg["c1"] \in DOMAIN messages

\* positions at which a call holds the write lock, and the read lock
WriteHeldPcs == {"Add38", "Add39", "Con53", "Con54", "Cln65", "Cln71"}
ReadHeldPcs == {"Con46", "Con48", "Con51", "Con57"}

\* goroutine t waits at a Lock or an RLock that cannot be granted
Blocked(t) ==
    \/ pc[t] \in {"Add36", "Con52", "Cln62"} /\ ~CanLock
    \/ pc[t] \in {"Con43", "Con55"} /\ ~CanRLock

\* C15: lock balance and deadlock freedom.  A goroutine holds the write lock
\* exactly between a Lock and the Unlock that follows it and the read lock
\* exactly between an RLock and the RUnlock that follows it, so that every
\* Unlock and RUnlock releases a lock its caller holds and a call of Add,
\* Contains or Cleanup returns holding neither; whoever holds the lock is at a
\* statement that waits for no lock; the poll and the cleanup goroutine are
\* never both blocked, and a blocked one waits for a lock the other holds.
C15_State ==
    /\ \A t \in Procs :
          /\ (wOwner = t) = (pc[t] \in WriteHeldPcs)
          /\ (t \in readers) = (pc[t] \in ReadHeldPcs)
          /\ (wOwner = t \/ t \in readers) => ~Blocked(t)
    /\ ~(Blocked(Poll) /\ Blocked(Sweep))
    /\ Blocked(Poll) => (wOwner = Sweep \/ Sweep \in readers)
    /\ Blocked(Sweep) => (wOwner = Poll \/ Poll \in readers)

C15_Step ==
    \A t \in Procs :
        /\ (wOwner = t /\ wOwner' # t) => (wOwner' = "none" /\ pc'[t] # pc[t])
        /\ (t \in readers /\ t \notin readers') => pc'[t] # pc[t]

C15_LockBalance == [](C15_State) /\ [][C15_Step]_vars

\* the poll goroutine has deleted an expired entry and released the write
\* lock, and waits at the RLock of line 55 while Cleanup holds the lock
C15_Witness == pc[Poll] = "Con55" /\ wOwner = Sweep /\ Blocked(Poll)

\* C16: an observation does not refresh the timestamp.  The steps of the poll
\* goroutine through a lookup that finds a live entry (lines 43-48) and
\* through the skip that follows it (lines 165-168) leave every entry of the
\* cache as it is, and the timestamp the lookup found is the time of the Add
\* that followed the last successful send of the message.
C16_Step ==
    (/\ \/ pc[Poll] \in {"Con43", "Con46", "Con48"}
        \/ pc[Poll] = "L165r" /\ result[Poll]
     /\ pc'[Poll] # pc[Poll]) =>
        /\ messages' = messages
        /\ lastAdd' = lastAdd
        /\ sendCount' = sendCount

C16_State ==
    pc[Poll] = "Con48" =>
        /\ arg[Poll] \in DOMAIN messages
        /\ sendCount[arg[Poll]] >= 1
        /\ messages[arg[Poll]] = lastAdd[arg[Poll]]
        /\ timestamp[Poll] = lastAdd[arg[Poll]]

C16_NoRefreshOnObservation == [](C16_State) /\ [][C16_Step]_vars

\* a message sent earlier has been observed again, found live and skipped,
\* and its entry still carries the time of the send
C16_Witness ==
    /\ pc[Poll] = "L163"
    /\ idx > 1 /\ result[Poll]
    /\ matches[idx - 1] \in DOMAIN messages
    /\ messages[matches[idx - 1]] = lastAdd[matches[idx - 1]]
    /\ messages[matches[idx - 1]] < now

\* C17: the range of a query is one poll interval ending at the time of the
\* call: [now - interval, now].
C17_Step ==
    (pc[Poll] = "L227" /\ pc'[Poll] = "L143") =>
        /\ q'.end = now
        /\ q'.start = now - interval

C17_QueryRangeIsInterval == [][C17_Step]_vars

\* the poll goroutine is inside a query-and-notify cycle
InCycle == pc[Poll] \notin (StartupPcs \cup {"L226", "exited"})

SweepPcs == {"notStarted", "L210", "L212", "Cln62", "Cln65", "Cln71"}

\* C18: poll cycles do not overlap.  A tick is taken from the poll ticker
\* only by the poll goroutine waiting at line 226, which then runs the cycle
\* itself; a tick that fires during a cycle waits in the ticker and changes
\* nothing of the running cycle; a request is issued only when none is in
\* flight; and the cache is used by the poll goroutine and by the one cleanup
\* goroutine only, the latter calling nothing but Cleanup.
C18_Step ==
    /\ (tickers[Poll].pending /\ ~tickers'[Poll].pending) =>
          (~InCycle /\ pc[Poll] = "L226" /\ pc'[Poll] = "L227")
    /\ (InCycle /\ ~tickers[Poll].pending /\ tickers'[Poll].pending) =>
          (pc' = pc /\ matches' = matches /\ idx' = idx /\ q' = q /\ arg' = arg)
    /\ (q' # q /\ q' # NoQuery) => (q = NoQuery /\ pc[Poll] = "L227")

C18_State ==
    /\ \A t \in Clients : pc[t] = "idle" /\ arg[t] = NoMsg
    /\ pc[Sweep] \in SweepPcs
    /\ wOwner \in {"none", Poll, Sweep}
    /\ readers \subseteq {Poll}
    /\ (q # NoQuery) = (pc[Poll] = "L143")

C18_CyclesDoNotOverlap == [](C18_State) /\ [][C18_Step]_vars

\* the next tick has fired while the cycle is still at its send, and
\* Cleanup runs at the same time
C18_Witness ==
    /\ pc[Poll] = "L170"
    /\ tickers[Poll].pending
    /\ pc[Sweep] = "Cln65"

\* C19: within one cycle a message whose send has succeeded is not sent
\* again: every later occurrence of it in the batch has its Contains return
\* true.
C19_Step ==
    /\ (pc[Poll] = "L170" /\ pc'[Poll] = "Add36") => arg[Poll] \notin cycleSent
    /\ (pc[Poll] \in ContainsPcs /\ pc'[Poll] = "L165r" /\ arg[Poll] \in cycleSent) =>
          result'[Poll]

C19_OncePerCycle == [][C19_Step]_vars

\* C19, amended: within one cycle every later occurrence of a message whose
\* send has succeeded, looked up less than one window after the Add that
\* followed that send, is found live, has its Contains return true and is
\* skipped; the message is sent a second time in the cycle only when a whole
\* window has passed since that Add.
C19_AmendedStep ==
    /\ (/\ pc[Poll] = "Con46" /\ pc'[Poll] # "Con46"
        /\ arg[Poll] \in cycleSent
        /\ now - lastAdd[arg[Poll]] < Window) => pc'[Poll] = "Con48"
    /\ (pc[Poll] = "Con48" /\ pc'[Poll] # "Con48") =>
          (pc'[Poll] = "L165r" /\ result'[Poll])
    /\ (pc[Poll] = "L165r" /\ result[Poll] /\ pc'[Poll] # "L165r") =>
          (pc'[Poll] = "L163" /\ idx' = idx + 1 /\ sendCount' = sendCount)
    /\ (pc[Poll] = "L170" /\ pc'[Poll] = "Add36" /\ arg[Poll] \in cycleSent) =>
          now - lastAdd[arg[Poll]] >= Window

C19_OncePerCycleWithinWindow == [][C19_AmendedStep]_vars

\* a batch that holds one message twice is done: the first occurrence was
\* sent, for the first time ever, and the second one was skipped
C19_Witness ==
    /\ pc[Poll] = "L163"
    /\ Len(matches) >= 2 /\ idx = Len(matches) + 1
    /\ matches[idx - 1] = matches[1]
    /\ matches[1] \in cycleSent
    /\ sendCount[matches[1]] = 1
    /\ result[Poll]

\* the cleanup goroutine has handled every tick its ticker has delivered
SweepCaughtUp ==
    pc[Sweep] = "L212" /\ tickers[Sweep].on /\ ~tickers[Sweep].pending

\* the time of the last tick of the cleanup ticker (the time it was created
\* at when it has not ticked yet)
LastSweepTick == tickers[Sweep].next - tickers[Sweep].period

\* C20: bounded retention.  When the loop of Cleanup has run, no entry of
\* the map is older than the window; and whenever the cleanup goroutine has
\* handled every tick delivered, no entry was older than the window at the
\* last tick, so that no entry is older than the window plus one period of
\* the cleanup ticker.
C20_Step ==
    \A t \in Procs :
        (pc[t] = "Cln65" /\ pc'[t] = "Cln71") =>
            \A f \in DOMAIN messages' : now' - messages'[f] <= Window

C20_State ==
    SweepCaughtUp =>
        \A f \in DOMAIN messages :
            /\ LastSweepTick - messages[f] <= Window
            /\ now - messages[f] <= Window + SweepPeriod

C20_BoundedRetention == [](C20_State) /\ [][C20_Step]_vars

\* at a tick of the cleanup ticker Cleanup has removed a message, sent once
\* and never added again, whose age had exceeded the window since the tick
\* before, and has kept a younger one
C20_Witness ==
    /\ SweepCaughtUp
    /\ now = LastSweepTick
    /\ DOMAIN messages # {}
    /\ \E f \in DOMAIN lastAdd :
          /\ f \notin DOMAIN messages
          /\ sendCount[f] = 1
          /\ now - lastAdd[f] > Window
          /\ now - lastAdd[f] <= Window + SweepPeriod

====
